---- MODULE Spec2Model ----
(***************************************************************************)
(* Platform leveling system: the actuator driver (ESP32Controller), the    *)
(* leveling orchestrator (PlatformLevelingSystem) and the kinematics       *)
(* solver, as a state machine.                                             *)
(*                                                                         *)
(* Units.  Lengths are integers in tenths of a millimetre, speeds in mm/s, *)
(* currents in mA, angles in tenths of a degree.  With these units every   *)
(* quantity the driver computes for the speeds in SpeedValues is an exact  *)
(* integer.                                                                *)
(***************************************************************************)
EXTENDS Integers, Sequences, FiniteSets, TLC

(***************************************************************************)
(* Program constants                                                       *)
(***************************************************************************)
\* min_position_mm = 300 mm (config.min_height * 1000), in tenths of a mm
MinPosition == 3000
\* update_rate of the control loop, Hz
UpdateRate == 50
\* default actuator speed, mm/s
DefaultSpeed == 20
\* "within 0.5mm is close enough", in tenths of a mm
SettleThreshold == 5
\* calibrate: "within 1mm", in tenths of a mm
CalTolerance == 10
\* tenths of a millimetre per millimetre
PerMm == 10

(***************************************************************************)
(* Bounds of the model                                                     *)
(***************************************************************************)
\* max_position - min_position, in tenths of a mm (the constructor's input)
TravelRange == 12
\* number of polls of calibrate's wait loop before max_wait has elapsed
MaxWaitPolls == 1

MaxPosition == MinPosition + TravelRange

\* speeds handed to set_speed, mm/s (set_speed takes any number)
SpeedValues == {-20, 40}

PlatformTypes == {"stewart_3dof"}

NumActuatorsOf(ptype) == IF ptype = "tripod" THEN 3 ELSE 6

Uniform(n, v) == [i \in 1..n |-> v]

\* a list that sends leg 1 to v and asks the other legs for a length below the
\* travel range
OneLeg(n, v) == [i \in 1..n |-> IF i = 1 THEN v ELSE MinPosition - 3]

\* the lists handed to set_targets: values below, inside and above the travel
\* range, and lists of the wrong length
TargetLists(n) ==
  {Uniform(n, MinPosition - 3), OneLeg(n, MinPosition + 6), OneLeg(n, MaxPosition + 4),
   Uniform(n - 1, MaxPosition + 4), Uniform(n + 1, MaxPosition + 4)}

VARIABLES
  platform_type,   \* PlatformLevelingSystem.platform_type
  actuators,       \* ESP32Controller.actuators: sequence of ActuatorState
  emergency_stop,  \* ESP32Controller.emergency_stop
  calibrated,      \* ESP32Controller.calibrated
  tick_pc,         \* control loop: "idle" (sleeping) or "update" (past the flag test)
  tick_go,         \* the outcome of the tick's test of emergency_stop
  estop_pc,        \* emergency_stop_trigger: "idle" or "flagged" (flag set, not yet disabled)
  cal_pc,          \* calibrate: "idle", "wait" (in the wait loop) or "finish"
  cal_polls,       \* polls of the wait loop done so far
  cal_timed_out,   \* the wait loop ended because max_wait elapsed
  cmd_result,      \* outcome of the last set_targets call: "none", "ok", "ValueError"
  stop_returned,   \* history: emergency_stop_trigger has returned, no reset called since
  tick_after_stop, \* history: the current tick began while stop_returned held
  leveling_enabled,    \* PlatformLevelingSystem.leveling_enabled
  auto_level_enabled,  \* PlatformLevelingSystem.auto_level_enabled
  running,             \* PlatformLevelingSystem.running
  last_orientation,    \* PlatformLevelingSystem.last_orientation: <<roll, pitch, yaw>>
  latest_data,         \* IMUStreamer.latest_data: NoData or <<roll, pitch, yaw>>
  loop_pc,             \* _auto_level_loop: "none" (no thread), "check", "level",
                       \* "raised" (the thread ended by an exception)
  current_orientation, \* _auto_level_loop's local, set while loop_pc = "level"
  acted,               \* history: the samples the last set_targets calls of the
                       \* orchestrator were computed from, oldest first
  unreachable_pending, \* history: level_once found a correction unreachable and
                       \* has issued none since
  imu_offset,          \* IMUStreamer.roll_offset, pitch_offset, yaw_offset
  last_raw,            \* history: the orientation the latest sample carried, before
                       \* the offsets were subtracted; NoData before the first
  loop_threads,        \* the number of live threads running _auto_level_loop
  shutdown_pc,         \* shutdown: "idle" or "join" (flags cleared, joining the thread)
  current_config,      \* api.current_config: the geometry /config has set
  ik_request,          \* the PoseRequest of the last call of calculate_ik
  ik_response,         \* the result of the last call of calculate_ik
  http_status,         \* the status of the last HTTP response, 0 before the first
  redis_client,        \* cache.redis_client is set (init_cache has connected)
  ik_cache,            \* the entries Redis holds: records [key, value]
  cached,              \* the field cached of the last /calculate response
  serial_conn,         \* SerialProtocol.serial_conn is set (a real serial port)
  serial_out           \* the last packet written to serial_conn, <<>> before the first

drv_vars == <<platform_type, actuators, emergency_stop, calibrated, tick_pc, tick_go,
              estop_pc, cal_pc, cal_polls, cal_timed_out, cmd_result, stop_returned,
              tick_after_stop>>

orch_vars == <<leveling_enabled, auto_level_enabled, running, last_orientation,
               latest_data, loop_pc, current_orientation, acted, unreachable_pending,
               imu_offset, last_raw, loop_threads, shutdown_pc>>

imu_vars == <<imu_offset, last_raw>>

life_vars == <<loop_threads, shutdown_pc>>

cache_vars == <<redis_client, ik_cache, cached>>

api_vars == <<current_config, ik_request, ik_response, http_status, cache_vars>>

proto_vars == <<serial_conn, serial_out>>

vars == <<drv_vars, orch_vars, api_vars, proto_vars>>

\* latest_data before the first sample has arrived (None): the empty tuple
NoData == <<>>

NumActuators == NumActuatorsOf(platform_type)

Abs(x) == IF x < 0 THEN -x ELSE x

Min2(a, b) == IF a <= b THEN a ELSE b

Max2(a, b) == IF a >= b THEN a ELSE b

\* np.clip(a, a_min, a_max) = minimum(maximum(a, a_min), a_max)
Clip(a, a_min, a_max) == Min2(Max2(a, a_min), a_max)

\* PlatformConfigModel(): the default geometry of the API, in tenths of a mm
DefaultGeometry ==
  [base_radius |-> 1200, platform_radius |-> 700, nominal_leg_length |-> 1500,
   min_leg_length |-> 1000, max_leg_length |-> 2000]

\* before the first call of calculate_ik: no request, no response
NoRequest ==
  [configuration |-> "", x |-> 0, y |-> 0, z |-> 0, roll |-> 0, pitch |-> 0, yaw |-> 0,
   geometry |-> <<>>]

NoResponse == [leg_lengths |-> <<>>, valid |-> FALSE, configuration |-> ""]

\* initial ActuatorState of __init__
InitialActuator ==
  [position |-> MinPosition, target |-> MinPosition, speed |-> DefaultSpeed,
   current |-> 0, limit_min |-> TRUE, limit_max |-> FALSE, enabled |-> FALSE]

InitOf(ptype) ==
  /\ platform_type = ptype
  /\ actuators = [i \in 1..NumActuatorsOf(platform_type) |-> InitialActuator]
  /\ emergency_stop = FALSE
  /\ calibrated = FALSE
  /\ tick_pc = "idle"
  /\ tick_go = FALSE
  /\ estop_pc = "idle"
  /\ cal_pc = "idle"
  /\ cal_polls = 0
  /\ cal_timed_out = FALSE
  /\ cmd_result = "none"
  /\ stop_returned = FALSE
  /\ tick_after_stop = FALSE
  /\ leveling_enabled = FALSE
  /\ auto_level_enabled = FALSE
  /\ running = FALSE
  /\ last_orientation = <<0, 0, 0>>
  /\ latest_data = NoData
  /\ loop_pc = "none"
  /\ imu_offset = <<0, 0, 0>>
  /\ last_raw = NoData
  /\ loop_threads = 0
  /\ shutdown_pc = "idle"
  /\ current_orientation = NoData
  /\ acted = <<>>
  /\ unreachable_pending = FALSE
  /\ current_config = DefaultGeometry
  /\ ik_request = NoRequest
  /\ ik_response = NoResponse
  /\ http_status = 0
  /\ redis_client = FALSE
  /\ ik_cache = {}
  /\ cached = FALSE
  /\ serial_conn = FALSE
  /\ serial_out = <<>>

\* the system constructed for one of the platform types followed
Init == \E ptype \in PlatformTypes : InitOf(ptype)

\* PlatformLevelingSystem(platform_type="tripod"), the default
TripodInit == InitOf("tripod")

(***************************************************************************)
(* ESP32Controller._update_actuator                                        *)
(***************************************************************************)
\* mutant: dt computed by integer division, 1 // update_rate = 0
MaxMovementIntegerDt(speed) == speed * PerMm * (1 \div UpdateRate)

\* max_movement = actuator.speed * dt, dt = 1 / update_rate, in tenths of a mm
MaxMovement(speed) == (speed * PerMm) \div UpdateRate

\* current draw in mA: 0.5 A + |movement| * 0.1 A/mm when moving more than 0.1 mm
CurrentDraw(movement) ==
  IF Abs(movement) > 1 THEN 500 + Abs(movement) * 10 ELSE 100

\* mutant: the new position is stored without the check of the limits
UpdateActuatorNoClamp(a) ==
  LET error == a.target - a.position
      max_movement == MaxMovement(a.speed)
      movement == Clip(error, -max_movement, max_movement)
      new_position == a.position + movement
  IN IF Abs(error) < SettleThreshold
       THEN a
       ELSE [a EXCEPT !.position = new_position,
                      !.limit_min = (new_position <= MinPosition),
                      !.limit_max = (new_position >= MaxPosition),
                      !.current = CurrentDraw(movement)]

\* mutant: a limit switch is set on reaching the limit and never cleared
UpdateActuatorStickyLimits(a) ==
  LET error == a.target - a.position
      max_movement == MaxMovement(a.speed)
      movement == Clip(error, -max_movement, max_movement)
      new_position == a.position + movement
      at_min == new_position <= MinPosition
      pos1 == IF at_min THEN MinPosition ELSE new_position
      at_max == pos1 >= MaxPosition
      pos2 == IF at_max THEN MaxPosition ELSE pos1
  IN IF Abs(error) < SettleThreshold
       THEN a
       ELSE [a EXCEPT !.position = pos2, !.limit_min = (at_min \/ a.limit_min),
                      !.limit_max = (at_max \/ a.limit_max),
                      !.current = CurrentDraw(movement)]

UpdateActuator(a) ==
  LET error == a.target - a.position
      max_movement == MaxMovement(a.speed)
      movement == Clip(error, -max_movement, max_movement)
      new_position == a.position + movement
      at_min == new_position <= MinPosition
      pos1 == IF at_min THEN MinPosition ELSE new_position
      at_max == pos1 >= MaxPosition
      pos2 == IF at_max THEN MaxPosition ELSE pos1
  IN IF Abs(error) < SettleThreshold
       THEN a
       ELSE [a EXCEPT !.position = pos2, !.limit_min = at_min,
                      !.limit_max = at_max, !.current = CurrentDraw(movement)]

(***************************************************************************)
(* ESP32Controller._control_loop: one iteration in two steps, the test of  *)
(* emergency_stop and the update of the enabled actuators.                 *)
(***************************************************************************)
\* mutant: the loop updates the actuators without testing emergency_stop
TickGateAlways == TRUE

\* the test "if not self.emergency_stop"
TickGate == ~emergency_stop

TickBegin ==
  /\ tick_pc = "idle"
  /\ tick_pc' = "update"
  /\ tick_go' = TickGate
  /\ tick_after_stop' = stop_returned
  /\ UNCHANGED <<platform_type, actuators, emergency_stop, calibrated, estop_pc,
                 cal_pc, cal_polls, cal_timed_out, cmd_result, stop_returned>>
  /\ UNCHANGED <<orch_vars, api_vars, proto_vars>>

\* mutant: the loop updates the actuators that are not enabled too
UpdateAllIgnoresEnabled(acts, go) ==
  [i \in 1..Len(acts) |-> IF go THEN UpdateActuator(acts[i]) ELSE acts[i]]

\* the loop over the actuators, run when the test of emergency_stop passed
UpdateAll(acts, go) ==
  [i \in 1..Len(acts) |->
     IF go /\ acts[i].enabled THEN UpdateActuator(acts[i]) ELSE acts[i]]

TickUpdate ==
  /\ tick_pc = "update"
  /\ actuators' = UpdateAll(actuators, tick_go)
  /\ tick_pc' = "idle"
  /\ tick_go' = FALSE
  /\ tick_after_stop' = FALSE
  /\ UNCHANGED <<platform_type, emergency_stop, calibrated, estop_pc, cal_pc,
                 cal_polls, cal_timed_out, cmd_result, stop_returned>>
  /\ UNCHANGED <<orch_vars, api_vars, proto_vars>>

(***************************************************************************)
(* Commands of the driver                                                  *)
(***************************************************************************)
\* mutant: the targets are stored as requested
UnclampedTargets(acts, targets_mm) ==
  [i \in 1..Len(acts) |-> [acts[i] EXCEPT !.target = targets_mm[i]]]

\* the targets after set_targets(targets_mm) has run its loop
ClampedTargets(acts, targets_mm) ==
  [i \in 1..Len(acts) |->
     [acts[i] EXCEPT !.target = Clip(targets_mm[i], MinPosition, MaxPosition)]]

\* mutant: the count is checked after the loop, which has stored what it could
SetTargetsOnLateCheck(acts, targets_mm) ==
  [acts |-> [i \in 1..Len(acts) |->
               IF i <= Len(targets_mm)
                 THEN [acts[i] EXCEPT !.target = Clip(targets_mm[i], MinPosition, MaxPosition)]
                 ELSE acts[i]],
   result |-> IF Len(targets_mm) # Len(acts) THEN "ValueError" ELSE "ok"]

\* set_targets as a function of the actuators: the new actuators and the outcome
SetTargetsOn(acts, targets_mm) ==
  IF Len(targets_mm) # Len(acts)
    THEN [acts |-> acts, result |-> "ValueError"]
    ELSE [acts |-> ClampedTargets(acts, targets_mm), result |-> "ok"]

\* enable_actuators as a function of the actuators
EnableOn(acts, enable) == [i \in 1..Len(acts) |-> [acts[i] EXCEPT !.enabled = enable]]

set_targets(targets_mm) ==
  /\ actuators' = SetTargetsOn(actuators, targets_mm).acts
  /\ cmd_result' = SetTargetsOn(actuators, targets_mm).result
  /\ UNCHANGED <<platform_type, emergency_stop, calibrated, tick_pc, tick_go, estop_pc,
                 cal_pc, cal_polls, cal_timed_out, stop_returned, tick_after_stop>>
  /\ UNCHANGED <<orch_vars, api_vars, proto_vars>>

\* mutant: enabling the actuators also clears the emergency stop
EnableActuatorsClearsStop(enable) ==
  /\ actuators' = EnableOn(actuators, enable)
  /\ emergency_stop' = IF enable THEN FALSE ELSE emergency_stop
  /\ UNCHANGED <<platform_type, calibrated, tick_pc, tick_go, estop_pc,
                 cal_pc, cal_polls, cal_timed_out, cmd_result, stop_returned,
                 tick_after_stop>>
  /\ UNCHANGED <<orch_vars, api_vars, proto_vars>>

enable_actuators(enable) ==
  /\ actuators' = EnableOn(actuators, enable)
  /\ UNCHANGED <<platform_type, emergency_stop, calibrated, tick_pc, tick_go, estop_pc,
                 cal_pc, cal_polls, cal_timed_out, cmd_result, stop_returned,
                 tick_after_stop>>
  /\ UNCHANGED <<orch_vars, api_vars, proto_vars>>

set_speed(speed_mm_s) ==
  /\ actuators' = [i \in 1..NumActuators |-> [actuators[i] EXCEPT !.speed = speed_mm_s]]
  /\ UNCHANGED <<platform_type, emergency_stop, calibrated, tick_pc, tick_go, estop_pc,
                 cal_pc, cal_polls, cal_timed_out, cmd_result, stop_returned,
                 tick_after_stop>>
  /\ UNCHANGED <<orch_vars, api_vars, proto_vars>>

\* emergency_stop_trigger, first step: self.emergency_stop = True
EmergencyStopFlag ==
  /\ estop_pc = "idle"
  /\ emergency_stop' = TRUE
  /\ estop_pc' = "flagged"
  /\ UNCHANGED <<platform_type, actuators, calibrated, tick_pc, tick_go, cal_pc, cal_polls,
                 cal_timed_out, cmd_result, stop_returned, tick_after_stop>>
  /\ UNCHANGED <<orch_vars, api_vars, proto_vars>>

\* emergency_stop_trigger, second step: self.enable_actuators(False), and return
EmergencyStopDisable ==
  /\ estop_pc = "flagged"
  /\ actuators' = EnableOn(actuators, FALSE)
  /\ estop_pc' = "idle"
  /\ stop_returned' = emergency_stop
  /\ UNCHANGED <<platform_type, emergency_stop, calibrated, tick_pc, tick_go, cal_pc,
                 cal_polls, cal_timed_out, cmd_result, tick_after_stop>>
  /\ UNCHANGED <<orch_vars, api_vars, proto_vars>>

\* mutant: the reset enables the actuators again
ResetEmergencyStopEnables ==
  /\ emergency_stop' = FALSE
  /\ stop_returned' = FALSE
  /\ actuators' = EnableOn(actuators, TRUE)
  /\ UNCHANGED <<platform_type, calibrated, tick_pc, tick_go, estop_pc, cal_pc,
                 cal_polls, cal_timed_out, cmd_result, tick_after_stop>>
  /\ UNCHANGED <<orch_vars, api_vars, proto_vars>>

\* reset_emergency_stop: self.emergency_stop = False
reset_emergency_stop ==
  /\ emergency_stop' = FALSE
  /\ stop_returned' = FALSE
  /\ UNCHANGED <<platform_type, actuators, calibrated, tick_pc, tick_go, estop_pc, cal_pc,
                 cal_polls, cal_timed_out, cmd_result, tick_after_stop>>
  /\ UNCHANGED <<orch_vars, api_vars, proto_vars>>

(***************************************************************************)
(* ESP32Controller.calibrate                                               *)
(***************************************************************************)
HomePositions == Uniform(NumActuators, MinPosition)

\* all(e < 1.0 for e in errors)
AllHome ==
  \A i \in 1..NumActuators : Abs(actuators[i].position - MinPosition) < CalTolerance

\* enable_actuators(True); set_targets(home_positions); start of the wait
CalibrateStart ==
  /\ cal_pc = "idle"
  /\ actuators' = SetTargetsOn(EnableOn(actuators, TRUE), HomePositions).acts
  /\ cmd_result' = SetTargetsOn(EnableOn(actuators, TRUE), HomePositions).result
  /\ cal_pc' = "wait"
  /\ cal_polls' = 0
  /\ cal_timed_out' = FALSE
  /\ UNCHANGED <<platform_type, emergency_stop, calibrated, tick_pc, tick_go, estop_pc,
                 stop_returned, tick_after_stop>>
  /\ UNCHANGED <<orch_vars, api_vars, proto_vars>>

\* mutant: the wait has no timeout, it ends only when every actuator is home
CalibratePollUntilHome ==
  /\ cal_pc = "wait"
  /\ IF AllHome
       THEN /\ cal_pc' = "finish"
            /\ cal_timed_out' = FALSE
            /\ cal_polls' = cal_polls
       ELSE /\ cal_pc' = "wait"
            /\ cal_timed_out' = FALSE
            /\ cal_polls' = Min2(cal_polls + 1, MaxWaitPolls)
  /\ UNCHANGED <<platform_type, actuators, emergency_stop, calibrated, tick_pc, tick_go,
                 estop_pc, cmd_result, stop_returned, tick_after_stop>>
  /\ UNCHANGED <<orch_vars, api_vars, proto_vars>>

\* one evaluation of the while condition and of the loop body
CalibratePoll ==
  /\ cal_pc = "wait"
  /\ IF cal_polls >= MaxWaitPolls
       THEN /\ cal_pc' = "finish"
            /\ cal_timed_out' = TRUE
            /\ cal_polls' = cal_polls
       ELSE IF AllHome
              THEN /\ cal_pc' = "finish"
                   /\ cal_timed_out' = FALSE
                   /\ cal_polls' = cal_polls
              ELSE /\ cal_pc' = "wait"
                   /\ cal_timed_out' = FALSE
                   /\ cal_polls' = cal_polls + 1
  /\ UNCHANGED <<platform_type, actuators, emergency_stop, calibrated, tick_pc, tick_go,
                 estop_pc, cmd_result, stop_returned, tick_after_stop>>
  /\ UNCHANGED <<orch_vars, api_vars, proto_vars>>

\* the value calibrate stores in self.calibrated after its wait
CalibratedAfterWait(timed_out) == TRUE

CalibrateFinish ==
  /\ cal_pc = "finish"
  /\ calibrated' = CalibratedAfterWait(cal_timed_out)
  /\ cal_pc' = "idle"
  /\ cal_polls' = 0
  /\ cal_timed_out' = FALSE
  /\ UNCHANGED <<platform_type, actuators, emergency_stop, tick_pc, tick_go, estop_pc,
                 cmd_result, stop_returned, tick_after_stop>>
  /\ UNCHANGED <<orch_vars, api_vars, proto_vars>>

(***************************************************************************)
(* SerialProtocol: the commands, their payloads and the packet written to  *)
(* a serial port.  A payload is a sequence of bytes; a float of a payload  *)
(* is an IEEE 754 single, least significant byte first.                    *)
(***************************************************************************)
CMD_SET_TARGET == 1
CMD_ENABLE == 2
CMD_EMERGENCY_STOP == 3
CMD_GET_STATUS == 4
CMD_CALIBRATE == 5
CMD_SET_SPEED == 6

\* the first byte of a packet
StartByte == 170

RECURSIVE Pow2(_)
Pow2(n) == IF n = 0 THEN 1 ELSE 2 * Pow2(n - 1)

\* the largest k in lo..hi with den * 2^k <= 16 * a
RECURSIVE ExponentIter(_, _, _, _)
ExponentIter(a, den, k, hi) ==
  IF k < hi /\ den * Pow2(k + 1) <= 16 * a THEN ExponentIter(a, den, k + 1, hi) ELSE k

\* n / d rounded to the nearest integer, a tie to the even one
RoundHalfEven(n, d) ==
  LET q == n \div d
      r == n % d
  IN IF 2 * r > d \/ (2 * r = d /\ q % 2 = 1) THEN q + 1 ELSE q

\* struct.pack('f', num / den): the four bytes of the nearest single, for
\* 1/16 <= |num / den| < 2^20, and for 0
Float32Bytes(num, den) ==
  IF num = 0 THEN <<0, 0, 0, 0>>
  ELSE LET a == Abs(num)
           e == ExponentIter(a, den, 0, 24) - 4
           m0 == RoundHalfEven(a * Pow2(23 - e), den)
           carry == m0 = Pow2(24)
           m == IF carry THEN 0 ELSE m0 - Pow2(23)
           E == (IF carry THEN e + 1 ELSE e) + 127
           sign == IF num < 0 THEN 1 ELSE 0
       IN <<m % 256, (m \div 256) % 256, (m \div 65536) + 128 * (E % 2),
            128 * sign + E \div 2>>

\* struct.unpack('f', b) in units of 1 / den, rounded to the nearest unit
\* (singles from 2^-7 to 2^23 in size, and 0)
Float32Value(b, den) ==
  LET E == 2 * (b[4] % 128) + b[3] \div 128
      m == b[1] + 256 * b[2] + 65536 * (b[3] % 128) + Pow2(23)
      size == IF E = 0 THEN 0 ELSE RoundHalfEven(den * m, Pow2(150 - E))
  IN IF b[4] >= 128 THEN 0 - size ELSE size

RECURSIVE Concat(_)
Concat(seqs) == IF seqs = <<>> THEN <<>> ELSE Head(seqs) \o Concat(Tail(seqs))

\* struct.pack(f'{n}f', *values): values in units of 1 / den
PackFloats(values, den) == Concat([i \in 1..Len(values) |-> Float32Bytes(values[i], den)])

\* mutant: the payload is decoded from its end, the last float first
UnpackFloatsReversed(data, den) ==
  [i \in 1..(Len(data) \div 4) |->
     Float32Value(SubSeq(data, Len(data) - 4 * i + 1, Len(data) - 4 * i + 4), den)]

\* struct.unpack(f'{len(data) // 4}f', data), for len(data) a multiple of 4
UnpackFloats(data, den) ==
  [i \in 1..(Len(data) \div 4) |-> Float32Value(SubSeq(data, 4 * i - 3, 4 * i), den)]

RECURSIVE SumBytes(_)
SumBytes(bytes) == IF bytes = <<>> THEN 0 ELSE Head(bytes) + SumBytes(Tail(bytes))

\* mutant: the checksum leaves out the start byte
PacketChecksumOfBody(command, data) ==
  LET body == <<command, Len(data)>> \o data
  IN <<StartByte>> \o body \o <<SumBytes(body) % 256>>

\* the packet send_command writes: [START_BYTE][COMMAND][LENGTH][DATA][CHECKSUM],
\* checksum = sum(packet) & 0xFF
Packet(command, data) ==
  LET packet == <<StartByte, command, Len(data)>> \o data
  IN packet \o <<SumBytes(packet) % 256>>

\* the command bytes sent: the six commands and a byte that is none of them
Commands == {CMD_SET_TARGET, CMD_ENABLE, CMD_EMERGENCY_STOP, CMD_GET_STATUS,
             CMD_CALIBRATE, CMD_SET_SPEED, 7}

\* the longest payload whose length fits the packet's length byte
MaxPayload == 255

\* the payloads sent: none, one byte, two bytes, packed speeds, packed target
\* lists, and one byte more than the length byte can hold
Payloads ==
  {<<>>, <<0>>, <<1>>, <<1, 0>>, Uniform(MaxPayload + 1, 0)}
    \cup {PackFloats(<<v>>, 1) : v \in SpeedValues}
    \cup {PackFloats(t, PerMm) : t \in TargetLists(6)}

\* SerialProtocol.connect(simulated=False) when the port opens; connect is
\* called once, after the protocol is constructed and before any command
connect ==
  /\ ~serial_conn
  /\ actuators = [i \in 1..NumActuators |-> InitialActuator]
  /\ ~emergency_stop /\ ~calibrated
  /\ estop_pc = "idle" /\ cal_pc = "idle" /\ cmd_result = "none"
  /\ serial_conn' = TRUE
  /\ UNCHANGED <<drv_vars, orch_vars, api_vars, serial_out>>

\* _execute_command: the driver operation of a command; a payload struct.unpack
\* does not accept raises struct.error, a command without a branch does nothing
ExecuteCommand(command, data) ==
  CASE command = CMD_SET_TARGET /\ Len(data) % 4 = 0 ->
         set_targets(UnpackFloats(data, PerMm))
    [] command = CMD_ENABLE /\ Len(data) = 1 -> enable_actuators(data[1] = 1)
    [] command = CMD_EMERGENCY_STOP -> EmergencyStopFlag
    [] command = CMD_CALIBRATE -> CalibrateStart
    [] command = CMD_SET_SPEED /\ Len(data) = 4 -> set_speed(Float32Value(data, 1))
    [] OTHER -> UNCHANGED vars

\* send_command: with a serial port the packet is written (struct.pack raises
\* for a length above 255), without one the command is executed directly
send_command(command, data) ==
  IF serial_conn
    THEN /\ serial_out' = IF Len(data) <= MaxPayload THEN Packet(command, data)
                                                     ELSE serial_out
         /\ UNCHANGED <<drv_vars, orch_vars, api_vars, serial_conn>>
    ELSE ExecuteCommand(command, data)

(***************************************************************************)
(* Kinematics solver (TripodIK, StewartPlatformIK).  Coordinates and       *)
(* lengths are integers in tenths of a millimetre; sines and cosines are   *)
(* integers in units of 1 / TrigScale, tabulated for the angles (tenths of *)
(* a degree) the samples use.  Products are rounded to the nearest unit.   *)
(***************************************************************************)
TrigScale == 10000

\* config.min_height = 0.3 m, in tenths of a mm
MinHeight == 3000
\* config.actuator_stroke = 0.4 m, in tenths of a mm
ActuatorStroke == 4000

\* round(TrigScale * sin(a / 10 degrees)) for a >= 0
SinTable(a) ==
  CASE a = 0 -> 0 [] a = 5 -> 87 [] a = 20 -> 349 [] a = 30 -> 523
    [] a = 33 -> 576 [] a = 35 -> 610 [] a = 50 -> 872 [] a = 100 -> 1736
    [] a = 150 -> 2588 [] a = 200 -> 3420 [] a = 300 -> 5000 [] a = 450 -> 7071
    [] a = 600 -> 8660 [] a = 750 -> 9659 [] a = 900 -> 10000

\* round(TrigScale * cos(a / 10 degrees)) for a >= 0
CosTable(a) ==
  CASE a = 0 -> 10000 [] a = 5 -> 10000 [] a = 20 -> 9994 [] a = 30 -> 9986
    [] a = 33 -> 9983 [] a = 35 -> 9981 [] a = 50 -> 9962 [] a = 100 -> 9848
    [] a = 150 -> 9659 [] a = 200 -> 9397 [] a = 300 -> 8660 [] a = 450 -> 7071
    [] a = 600 -> 5000 [] a = 750 -> 2588 [] a = 900 -> 0

\* np.sin, np.cos of np.deg2rad(a / 10)
Sin(a) == IF a < 0 THEN -SinTable(-a) ELSE SinTable(a)

Cos(a) == CosTable(Abs(a))

\* x / TrigScale rounded to the nearest integer
Descale(x) ==
  IF x >= 0 THEN (x + TrigScale \div 2) \div TrigScale
            ELSE -(((-x) + TrigScale \div 2) \div TrigScale)

\* the product of two 3x3 matrices of scaled entries
MatMul(A, B) ==
  [i \in 1..3 |-> [j \in 1..3 |->
     Descale(A[i][1] * B[1][j] + A[i][2] * B[2][j] + A[i][3] * B[3][j])]]

\* rotation_matrix: R = Rz @ Ry @ Rx
RotationMatrix(roll, pitch, yaw) ==
  LET Rx == <<<<TrigScale, 0, 0>>, <<0, Cos(roll), -Sin(roll)>>, <<0, Sin(roll), Cos(roll)>>>>
      Ry == <<<<Cos(pitch), 0, Sin(pitch)>>, <<0, TrigScale, 0>>, <<-Sin(pitch), 0, Cos(pitch)>>>>
      Rz == <<<<Cos(yaw), -Sin(yaw), 0>>, <<Sin(yaw), Cos(yaw), 0>>, <<0, 0, TrigScale>>>>
  IN MatMul(MatMul(Rz, Ry), Rx)

\* base_points: TripodIK (length / 3, length / 6, width / 2 of the 1.83 x 1.22 m
\* platform), StewartPlatformIK (hexagon of radius min(length, width) / 3)
BasePoints(ptype) ==
  IF ptype = "tripod"
    THEN <<<<6100, 0, 0>>, <<-3050, 6100, 0>>, <<-3050, -6100, 0>>>>
    ELSE <<<<3522, 2033, 0>>, <<0, 4067, 0>>, <<-3522, 2033, 0>>,
           <<-3522, -2033, 0>>, <<0, -4067, 0>>, <<3522, -2033, 0>>>>

\* platform_points, at height min_height when level (Stewart: radius 0.8 of the
\* base's, turned by 30 degrees)
PlatformPoints(ptype) ==
  IF ptype = "tripod"
    THEN <<<<6100, 0, MinHeight>>, <<-3050, 6100, MinHeight>>, <<-3050, -6100, MinHeight>>>>
    ELSE <<<<1627, 2817, MinHeight>>, <<-1627, 2817, MinHeight>>, <<-3253, 0, MinHeight>>,
           <<-1627, -2817, MinHeight>>, <<1627, -2817, MinHeight>>, <<3253, 0, MinHeight>>>>

RECURSIVE SqrtIter(_, _, _)
SqrtIter(x, lo, hi) ==
  IF lo >= hi THEN lo
  ELSE LET mid == (lo + hi + 1) \div 2
       IN IF mid * mid <= x THEN SqrtIter(x, mid, hi) ELSE SqrtIter(x, lo, mid - 1)

\* the integer part of the square root of x (x < 2^31)
ISqrt(x) == SqrtIter(x, 0, 46340)

\* np.linalg.norm of the difference of two points
Distance(p, q) ==
  ISqrt((p[1] - q[1]) * (p[1] - q[1]) + (p[2] - q[2]) * (p[2] - q[2])
          + (p[3] - q[3]) * (p[3] - q[3]))

\* one platform point moved to the pose: R @ (point - center) + center
RotatedPoint(R, point) ==
  LET l == <<point[1], point[2], point[3] - MinHeight>>
  IN <<Descale(R[1][1] * l[1] + R[1][2] * l[2] + R[1][3] * l[3]),
       Descale(R[2][1] * l[1] + R[2][2] * l[2] + R[2][3] * l[3]),
       Descale(R[3][1] * l[1] + R[3][2] * l[2] + R[3][3] * l[3]) + MinHeight>>

\* solve(roll, pitch, yaw) with no translation: the lengths and the validity flag
Solve(ptype, roll, pitch, yaw) ==
  LET R == RotationMatrix(roll, pitch, yaw)
      base == BasePoints(ptype)
      plat == PlatformPoints(ptype)
      lengths == [i \in 1..Len(base) |-> Distance(RotatedPoint(R, plat[i]), base[i])]
  IN [lengths |-> lengths,
      valid |-> \A i \in 1..Len(base) : /\ lengths[i] >= MinHeight
                                        /\ lengths[i] <= MinHeight + ActuatorStroke]

\* level_platform of the solver level_once calls: the tripod ignores yaw, the
\* Stewart platform corrects it in 6DOF mode only
LevelPlatform(ptype, roll, pitch, yaw) ==
  IF ptype = "stewart_6dof" THEN Solve(ptype, -roll, -pitch, -yaw)
                            ELSE Solve(ptype, -roll, -pitch, 0)

(***************************************************************************)
(* Leveling orchestrator (PlatformLevelingSystem) and the orientation feed *)
(***************************************************************************)
\* LevelingConfig.level_threshold = 2.0 degrees, in tenths of a degree
LevelThreshold == 20
\* LevelingConfig.deadband = 0.5 degrees, in tenths of a degree
Deadband == 5

\* number of entries the history acted keeps
MaxActed == 2

\* stands for an angle whose square is beyond the range of a float: Python's
\* imu_data.roll ** 2 raises OverflowError for it (a JSON packet may carry 1e200)
HugeAngle == 30000

\* the orientation samples the feed delivers: <<roll, pitch, yaw>>
Samples ==
  {<<0, 0, 0>>, <<20, 0, 0>>, <<30, 0, 0>>, <<33, 0, 0>>, <<35, 0, 0>>, <<200, 0, 0>>,
   <<HugeAngle, 0, 0>>}

\* the samples delivered to the tripod: 2, 3, 5 and 10 degrees of roll, of
\* pitch, or of both
TripodSamples ==
  {<<0, 0, 0>>, <<20, 0, 0>>, <<-50, 0, 0>>, <<100, 0, 0>>, <<0, 30, 0>>, <<0, -100, 0>>,
   <<30, -20, 0>>, <<50, 50, 0>>}

\* the platform types and the samples the solver is evaluated for
SolverTypes == PlatformTypes \cup {"tripod"}

SolverSamples == Samples \cup TripodSamples

\* imu_data.roll ** 2 + imu_data.pitch ** 2 raises OverflowError
PowRaises(sample) == Abs(sample[1]) >= HugeAngle \/ Abs(sample[2]) >= HugeAngle

\* tilt_magnitude ** 2 = roll ** 2 + pitch ** 2
TiltSquared(o) == o[1] * o[1] + o[2] * o[2]

\* np.linalg.norm(a - b) ** 2
ChangeSquared(a, b) ==
  (a[1] - b[1]) * (a[1] - b[1]) + (a[2] - b[2]) * (a[2] - b[2])
    + (a[3] - b[3]) * (a[3] - b[3])

\* acted with one more sample, the oldest entries dropped
Remember(log, sample) ==
  LET all == Append(log, sample)
  IN IF Len(all) > MaxActed THEN SubSeq(all, Len(all) - MaxActed + 1, Len(all)) ELSE all

\* IMUStreamer._parse_data: the feed stores a sample in latest_data
ReceiveSample(sample) ==
  /\ latest_data' = <<sample[1] - imu_offset[1], sample[2] - imu_offset[2],
                      sample[3] - imu_offset[3]>>
  /\ last_raw' = sample
  /\ UNCHANGED <<drv_vars, leveling_enabled, auto_level_enabled, running,
                 last_orientation, loop_pc, current_orientation, acted>>
  /\ UNCHANGED <<api_vars, proto_vars, imu_offset, life_vars, unreachable_pending>>

\* the largest offset followed, in tenths of a degree
MaxOffset == 60

\* calibrate_imu -> IMUStreamer.calibrate: each offset becomes the stored angle
\* of the latest sample plus the offset; nothing without a sample
calibrate_imu ==
  /\ imu_offset' = IF latest_data = NoData
                     THEN imu_offset
                     ELSE <<latest_data[1] + imu_offset[1], latest_data[2] + imu_offset[2],
                            latest_data[3] + imu_offset[3]>>
  /\ \A k \in 1..3 : Abs(imu_offset'[k]) <= MaxOffset
  /\ UNCHANGED <<drv_vars, leveling_enabled, auto_level_enabled, running, last_orientation,
                 latest_data, loop_pc, current_orientation, acted, unreachable_pending,
                 last_raw, life_vars>>
  /\ UNCHANGED <<api_vars, proto_vars>>

\* enable_leveling: the flag, then CMD_ENABLE through the protocol
enable_leveling(enable) ==
  /\ leveling_enabled' = enable
  /\ actuators' = EnableOn(actuators, enable)
  /\ UNCHANGED <<platform_type, emergency_stop, calibrated, tick_pc, tick_go, estop_pc,
                 cal_pc, cal_polls, cal_timed_out, cmd_result, stop_returned,
                 tick_after_stop>>
  /\ UNCHANGED <<auto_level_enabled, running, last_orientation, latest_data, loop_pc,
                 current_orientation, acted>>
  /\ UNCHANGED <<api_vars, proto_vars, imu_vars, life_vars, unreachable_pending>>

\* mutant: a thread is started at every enable_auto_level(True)
EnableAutoLevelAlwaysStarts(enable) ==
  /\ auto_level_enabled' = enable
  /\ IF enable
       THEN running' = TRUE /\ loop_pc' = "check" /\ loop_threads' = loop_threads + 1
       ELSE UNCHANGED <<running, loop_pc, loop_threads>>
  /\ UNCHANGED <<drv_vars, leveling_enabled, last_orientation, latest_data,
                 current_orientation, acted>>
  /\ UNCHANGED <<api_vars, proto_vars, imu_vars, shutdown_pc, unreachable_pending>>

\* enable_auto_level: the loop thread is started when running is false
enable_auto_level(enable) ==
  /\ auto_level_enabled' = enable
  /\ IF enable /\ ~running
       THEN running' = TRUE /\ loop_pc' = "check" /\ loop_threads' = loop_threads + 1
       ELSE UNCHANGED <<running, loop_pc, loop_threads>>
  /\ UNCHANGED <<drv_vars, leveling_enabled, last_orientation, latest_data,
                 current_orientation, acted>>
  /\ UNCHANGED <<api_vars, proto_vars, imu_vars, shutdown_pc, unreachable_pending>>

\* level_platform of the system's solver for every sample of the feed (the
\* arguments converted by np.deg2rad), evaluated once
LevelSolutions ==
  [ptype \in SolverTypes |->
     [sample \in {s \in SolverSamples : ~PowRaises(s)} |->
        LevelPlatform(ptype, sample[1], sample[2], sample[3])]]

\* mutant: level_once sends the lengths of a solution that is not valid
LevelOnceOfIgnoresValid(ptype, imu_data) ==
  IF imu_data = NoData
    THEN [send |-> FALSE, raised |-> FALSE, unreachable |-> FALSE, targets |-> <<>>]
  ELSE IF PowRaises(imu_data)
    THEN [send |-> FALSE, raised |-> TRUE, unreachable |-> FALSE, targets |-> <<>>]
  ELSE IF TiltSquared(imu_data) < LevelThreshold * LevelThreshold
    THEN [send |-> FALSE, raised |-> FALSE, unreachable |-> FALSE, targets |-> <<>>]
  ELSE [send |-> TRUE, raised |-> FALSE, unreachable |-> FALSE,
        targets |-> LevelSolutions[ptype][imu_data].lengths]

\* level_once as a function of the sample it fetches: whether CMD_SET_TARGET is
\* sent and with which targets, or whether the tilt computation raises
LevelOnceOf(ptype, imu_data) ==
  IF imu_data = NoData
    THEN [send |-> FALSE, raised |-> FALSE, unreachable |-> FALSE, targets |-> <<>>]
  ELSE IF PowRaises(imu_data)
    THEN [send |-> FALSE, raised |-> TRUE, unreachable |-> FALSE, targets |-> <<>>]
  ELSE IF TiltSquared(imu_data) < LevelThreshold * LevelThreshold
    THEN [send |-> FALSE, raised |-> FALSE, unreachable |-> FALSE, targets |-> <<>>]
  ELSE LET sol == LevelSolutions[ptype][imu_data]
       IN IF ~sol.valid
            THEN [send |-> FALSE, raised |-> FALSE, unreachable |-> TRUE, targets |-> <<>>]
            ELSE [send |-> TRUE, raised |-> FALSE, unreachable |-> FALSE, targets |-> sol.lengths]

\* data = struct.pack(f"{len(targets_mm)}f", *targets_mm) of level_once for every
\* sample of the feed, evaluated once
LevelPayloads ==
  [ptype \in SolverTypes |->
     [sample \in {s \in SolverSamples : ~PowRaises(s)} |->
        LET r == LevelOnceOf(ptype, sample)
        IN IF r.send THEN PackFloats(r.targets, PerMm) ELSE <<>>]]

\* the targets _execute_command decodes from level_once's payload (the protocol
\* of the system is connected in simulated mode), evaluated once
DecodedTargets ==
  [ptype \in SolverTypes |->
     [sample \in {s \in SolverSamples : ~PowRaises(s)} |->
        UnpackFloats(LevelPayloads[ptype][sample], PerMm)]]

\* the effect of level_once on the driver and on the history
LevelOnceEffect ==
  LET r == LevelOnceOf(platform_type, latest_data)
      decoded == DecodedTargets[platform_type][latest_data]
  IN IF r.send
       THEN /\ actuators' = SetTargetsOn(actuators, decoded).acts
            /\ cmd_result' = SetTargetsOn(actuators, decoded).result
            /\ acted' = Remember(acted, latest_data)
            /\ unreachable_pending' = FALSE
       ELSE /\ UNCHANGED <<actuators, cmd_result, acted>>
            /\ unreachable_pending' = (unreachable_pending \/ r.unreachable)

\* level_once called by the operator
level_once ==
  /\ LevelOnceEffect
  /\ UNCHANGED <<platform_type, emergency_stop, calibrated, tick_pc, tick_go, estop_pc,
                 cal_pc, cal_polls, cal_timed_out, stop_returned, tick_after_stop>>
  /\ UNCHANGED <<leveling_enabled, auto_level_enabled, running, last_orientation,
                 latest_data, loop_pc, current_orientation>>
  /\ UNCHANGED <<api_vars, proto_vars, imu_vars, life_vars>>

\* mutant: the loop runs no deadband test
BeyondDeadbandAlways(sample, last) == TRUE

\* the deadband test of the loop: orientation_change > deadband
BeyondDeadband(sample, last) == ChangeSquared(sample, last) > Deadband * Deadband

\* the tilt test of the loop: tilt_mag > level_threshold
BeyondThreshold(sample) == TiltSquared(sample) > LevelThreshold * LevelThreshold

\* mutant: the loop does not test leveling_enabled
LevelingGateOpen == TRUE

\* the loop's test of the leveling flag: if self.leveling_enabled
LevelingGate == leveling_enabled

\* _auto_level_loop: where the while test and the checks of one cycle lead: out
\* of the loop ("none"), to the call of level_once ("level"), to the next cycle
\* ("check"), or to the end of the thread by the OverflowError that the tilt
\* computation raises ("raised")
CycleOutcome ==
  IF ~(running /\ auto_level_enabled) THEN "none"
  ELSE IF /\ LevelingGate
          /\ latest_data # NoData
          /\ BeyondDeadband(latest_data, last_orientation)
         THEN IF PowRaises(latest_data) THEN "raised"
              ELSE IF BeyondThreshold(latest_data) THEN "level"
              ELSE "check"
         ELSE "check"

\* one cycle of _auto_level_loop up to the call of level_once
LoopCycle ==
  /\ loop_pc = "check"
  /\ loop_pc' = CycleOutcome
  /\ loop_threads' = IF CycleOutcome \in {"none", "raised"} THEN loop_threads - 1
                                                           ELSE loop_threads
  /\ current_orientation' = IF CycleOutcome = "level" THEN latest_data ELSE NoData
  /\ UNCHANGED <<drv_vars, leveling_enabled, auto_level_enabled, running,
                 last_orientation, latest_data, acted>>
  /\ UNCHANGED <<api_vars, proto_vars, imu_vars, shutdown_pc, unreachable_pending>>

\* _auto_level_loop: self.level_once() and self.last_orientation = current_orientation
LoopLevel ==
  /\ loop_pc = "level"
  /\ LevelOnceEffect
  /\ IF LevelOnceOf(platform_type, latest_data).raised
       THEN /\ loop_pc' = "raised"
            /\ loop_threads' = loop_threads - 1
            /\ UNCHANGED last_orientation
       ELSE /\ loop_pc' = "check"
            /\ last_orientation' = current_orientation
            /\ UNCHANGED loop_threads
  /\ current_orientation' = NoData
  /\ UNCHANGED <<platform_type, emergency_stop, calibrated, tick_pc, tick_go, estop_pc,
                 cal_pc, cal_polls, cal_timed_out, stop_returned, tick_after_stop>>
  /\ UNCHANGED <<leveling_enabled, auto_level_enabled, running, latest_data>>
  /\ UNCHANGED <<api_vars, proto_vars, imu_vars, shutdown_pc>>

\* shutdown, up to the join: running and auto_level_enabled are cleared
ShutdownBegin ==
  /\ shutdown_pc = "idle"
  /\ running' = FALSE
  /\ auto_level_enabled' = FALSE
  /\ shutdown_pc' = "join"
  /\ UNCHANGED <<drv_vars, leveling_enabled, last_orientation, latest_data, loop_pc,
                 current_orientation, acted, unreachable_pending, imu_vars, loop_threads>>
  /\ UNCHANGED <<api_vars, proto_vars>>

\* shutdown, from the join on: leveling_thread.join() returns when the thread
\* has ended (at once when none was started), then enable_leveling(False)
ShutdownFinish ==
  /\ shutdown_pc = "join"
  /\ loop_pc \in {"none", "raised"}
  /\ shutdown_pc' = "idle"
  /\ leveling_enabled' = FALSE
  /\ actuators' = EnableOn(actuators, FALSE)
  /\ UNCHANGED <<platform_type, emergency_stop, calibrated, tick_pc, tick_go, estop_pc,
                 cal_pc, cal_polls, cal_timed_out, cmd_result, stop_returned,
                 tick_after_stop>>
  /\ UNCHANGED <<auto_level_enabled, running, last_orientation, latest_data, loop_pc,
                 current_orientation, acted, unreachable_pending, imu_vars, loop_threads>>
  /\ UNCHANGED <<api_vars, proto_vars>>

\* ESP32Controller.get_status
ControllerStatus ==
  [positions |-> [i \in 1..NumActuators |-> actuators[i].position],
   targets |-> [i \in 1..NumActuators |-> actuators[i].target],
   currents |-> [i \in 1..NumActuators |-> actuators[i].current],
   enabled |-> [i \in 1..NumActuators |-> actuators[i].enabled],
   limit_min |-> [i \in 1..NumActuators |-> actuators[i].limit_min],
   limit_max |-> [i \in 1..NumActuators |-> actuators[i].limit_max],
   emergency_stop |-> emergency_stop,
   calibrated |-> calibrated]

\* PlatformLevelingSystem.get_status: the flags, the latest sample (roll, pitch,
\* yaw and the tilt magnitude computed from them; the computation raises
\* OverflowError for a sample PowRaises holds of) and the controller's status
GetStatus ==
  [leveling_enabled |-> leveling_enabled,
   auto_level_enabled |-> auto_level_enabled,
   raised |-> latest_data # NoData /\ PowRaises(latest_data),
   imu |-> IF latest_data # NoData /\ PowRaises(latest_data) THEN NoData ELSE latest_data,
   controller |-> ControllerStatus]

(***************************************************************************)
(* IK service (api.py): calculate_ik and the /config endpoint.  Lengths in *)
(* tenths of a millimetre, angles in tenths of a degree.                   *)
(***************************************************************************)
\* mutant: the asymmetric table hangs three legs on the last platform anchor
ConfigurationMappingUneven(config) ==
  CASE config = "3-3" -> [num_base |-> 3, num_platform |-> 3, leg_pairs |-> <<0, 1, 2>>]
    [] config = "4-4" -> [num_base |-> 4, num_platform |-> 4, leg_pairs |-> <<0, 1, 2, 3>>]
    [] config = "6-3-asymmetric" ->
         [num_base |-> 6, num_platform |-> 3, leg_pairs |-> <<0, 1, 1, 2, 2, 2>>]
    [] config = "6-3-redundant" ->
         [num_base |-> 6, num_platform |-> 3, leg_pairs |-> <<0, 1, 1, 2, 2, 0>>]
    [] config = "6-6" ->
         [num_base |-> 6, num_platform |-> 6, leg_pairs |-> <<0, 1, 2, 3, 4, 5>>]
    [] config = "8-8" ->
         [num_base |-> 8, num_platform |-> 8, leg_pairs |-> <<0, 1, 2, 3, 4, 5, 6, 7>>]
    [] OTHER -> [num_base |-> 6, num_platform |-> 3, leg_pairs |-> <<0, 0, 1, 1, 2, 2>>]

\* get_configuration_mapping: anchors of base and platform, and for each leg
\* (base anchor) the index of its platform anchor, counted from 0
ConfigurationMapping(config) ==
  CASE config = "3-3" -> [num_base |-> 3, num_platform |-> 3, leg_pairs |-> <<0, 1, 2>>]
    [] config = "4-4" -> [num_base |-> 4, num_platform |-> 4, leg_pairs |-> <<0, 1, 2, 3>>]
    [] config = "6-3-asymmetric" ->
         [num_base |-> 6, num_platform |-> 3, leg_pairs |-> <<0, 1, 1, 2, 2, 0>>]
    [] config = "6-3-redundant" ->
         [num_base |-> 6, num_platform |-> 3, leg_pairs |-> <<0, 1, 1, 2, 2, 0>>]
    [] config = "6-6" ->
         [num_base |-> 6, num_platform |-> 6, leg_pairs |-> <<0, 1, 2, 3, 4, 5>>]
    [] config = "8-8" ->
         [num_base |-> 8, num_platform |-> 8, leg_pairs |-> <<0, 1, 2, 3, 4, 5, 6, 7>>]
    [] OTHER -> [num_base |-> 6, num_platform |-> 3, leg_pairs |-> <<0, 0, 1, 1, 2, 2>>]

\* np.sin of an angle anywhere on the circle, from the first quadrant's table
SinCircle(a) ==
  LET b == a % 3600
  IN IF b <= 900 THEN SinTable(b)
     ELSE IF b <= 1800 THEN SinTable(1800 - b)
     ELSE IF b <= 2700 THEN -SinTable(b - 1800)
     ELSE -SinTable(3600 - b)

\* np.cos of an angle anywhere on the circle
CosCircle(a) == SinCircle(a + 900)

\* generate_points: n points on a circle, point i at 2 pi i / n + angle_offset
GeneratePoints(n, radius, angle_offset) ==
  [k \in 1..n |->
     LET angle == (3600 * (k - 1)) \div n + angle_offset
     IN <<Descale(radius * CosCircle(angle)), Descale(radius * SinCircle(angle)), 0>>]

\* the angle_offset of the platform points: pi / num_platform below 6 anchors,
\* pi / 6 from 6 on
PlatformAngleOffset(num_platform) ==
  IF num_platform < 6 THEN 1800 \div num_platform ELSE 300

\* mutant: one length per platform anchor
LegCountByPlatform(config_map) == config_map.num_platform

\* the legs calculate_ik computes: for i in range(num_base)
LegCount(config_map) == config_map.num_base

\* geometry = pose.geometry if pose.geometry else current_config
GeometryOf(pose, config) == IF pose.geometry # <<>> THEN pose.geometry[1] ELSE config

\* R @ platform_point + translation, the platform point lifted to
\* z = nominal_leg_length and translation = [x, y, z + nominal_leg_length]
TransformedPoint(R, point, pose, geometry) ==
  LET lifted == <<point[1], point[2], geometry.nominal_leg_length>>
  IN <<Descale(R[1][1] * lifted[1] + R[1][2] * lifted[2] + R[1][3] * lifted[3]) + pose.x,
       Descale(R[2][1] * lifted[1] + R[2][2] * lifted[2] + R[2][3] * lifted[3]) + pose.y,
       Descale(R[3][1] * lifted[1] + R[3][2] * lifted[2] + R[3][3] * lifted[3])
         + pose.z + geometry.nominal_leg_length>>

\* calculate_ik: the leg lengths and the validity flag of a request
CalculateIk(pose, config) ==
  LET geometry == GeometryOf(pose, config)
      config_map == ConfigurationMapping(pose.configuration)
      base_points == GeneratePoints(config_map.num_base, geometry.base_radius, 0)
      platform_points ==
        GeneratePoints(config_map.num_platform, geometry.platform_radius,
                       PlatformAngleOffset(config_map.num_platform))
      R == RotationMatrix(pose.roll, pose.pitch, pose.yaw)
      leg_lengths ==
        [i \in 1..LegCount(config_map) |->
           Distance(TransformedPoint(R, platform_points[config_map.leg_pairs[i] + 1],
                                     pose, geometry),
                    base_points[i])]
  IN [leg_lengths |-> leg_lengths,
      valid |-> \A i \in 1..Len(leg_lengths) :
                   /\ geometry.min_leg_length <= leg_lengths[i]
                   /\ leg_lengths[i] <= geometry.max_leg_length,
      configuration |-> pose.configuration]

\* the configurations PoseRequest accepts
Configurations == {"3-3", "4-4", "6-3", "6-3-asymmetric", "6-3-redundant", "6-6", "8-8"}

\* the configurations a request may name: the seven and one that is none of them
RequestedConfigurations == Configurations \cup {"invalid-config"}

\* geometries a request or /config may carry: the default, a wider one with a
\* longer stroke, and a flat one whose legs are mostly horizontal
Geometries ==
  {DefaultGeometry,
   [base_radius |-> 1300, platform_radius |-> 750, nominal_leg_length |-> 1500,
    min_leg_length |-> 1000, max_leg_length |-> 4000],
   [base_radius |-> 5000, platform_radius |-> 100, nominal_leg_length |-> 500,
    min_leg_length |-> 100, max_leg_length |-> 2000]}

\* the poses of the requests: <<x, y, z, roll, pitch, yaw>>
Poses == {<<0, 0, 0, 0, 0, 0>>, <<100, 50, 150, 0, 0, 0>>, <<0, 0, 0, 100, -50, 0>>,
          <<0, 0, -1500, 0, 0, 0>>}

PoseRequests ==
  {[configuration |-> c, x |-> q[1], y |-> q[2], z |-> q[3], roll |-> q[4],
    pitch |-> q[5], yaw |-> q[6], geometry |-> g] :
     c \in Configurations, q \in Poses, g \in {<<>>} \cup {<<h>> : h \in Geometries}}

\* the bodies posted to /calculate: every configuration a request may name, at
\* rest and rotated, with the geometry left out or given
RequestBodies ==
  {[configuration |-> c, x |-> 0, y |-> 0, z |-> 0, roll |-> r, pitch |-> 0, yaw |-> 0,
    geometry |-> g] :
     c \in RequestedConfigurations, r \in {0, 100}, g \in {<<>>, <<DefaultGeometry>>}}

\* the orientations handed to /level: <<roll, pitch, yaw>>
LevelOrientations == {<<0, 0, 0>>, <<100, -50, 0>>, <<50, 0, 200>>}

\* PoseRequest's validation: the Literal of configuration and the ranges of the
\* pose's fields
PoseRequestValid(pose) ==
  /\ pose.configuration \in Configurations
  /\ -10000 <= pose.x /\ pose.x <= 10000
  /\ -10000 <= pose.y /\ pose.y <= 10000
  /\ -5000 <= pose.z /\ pose.z <= 5000
  /\ -900 <= pose.roll /\ pose.roll <= 900
  /\ -900 <= pose.pitch /\ pose.pitch <= 900
  /\ -1800 <= pose.yaw /\ pose.yaw <= 1800

\* a call of calculate_ik that returns, answered with status 200
Calculate(pose) ==
  /\ ik_request' = pose
  /\ ik_response' = CalculateIk(pose, current_config)
  /\ http_status' = 200
  /\ UNCHANGED <<drv_vars, orch_vars, proto_vars, current_config, cache_vars>>

\* a request answered without a call of calculate_ik
Rejected(status) ==
  /\ http_status' = status
  /\ UNCHANGED <<drv_vars, orch_vars, proto_vars, current_config, ik_request, ik_response,
                 cache_vars>>

\* init_cache at startup, with settings.redis_enabled and a server that answers
init_cache ==
  /\ ~redis_client
  /\ http_status = 0
  /\ redis_client' = TRUE
  /\ UNCHANGED <<drv_vars, orch_vars, proto_vars, current_config, ik_request, ik_response,
                 http_status, ik_cache, cached>>

\* generate_cache_key(prefix, pose.dict()): the digest of the request's fields in
\* the order of their names, taken as free of collisions
GenerateCacheKey(prefix, data) ==
  <<prefix, data.configuration, data.geometry, data.pitch, data.roll,
    data.x, data.y, data.yaw, data.z>>

\* get_cached(key): the entries under the key, none without a client
GetCached(key) == IF redis_client THEN {e \in ik_cache : e.key = key} ELSE {}

\* set_cached(key, value): setex replaces the entry under the key
SetCached(key, value) ==
  IF redis_client
    THEN {e \in ik_cache : e.key # key} \cup {[key |-> key, value |-> value]}
    ELSE ik_cache

\* the entry under a key expires (setex with expiration = 300 s)
CacheExpire ==
  \E e \in ik_cache :
    /\ ik_cache' = ik_cache \ {e}
    /\ UNCHANGED <<drv_vars, orch_vars, proto_vars, current_config, ik_request,
                   ik_response, http_status, redis_client, cached>>

\* POST /calculate: the body is validated as a PoseRequest before the handler
\* runs, a body that fails is answered with 422; a result found in the cache
\* is returned with cached = True, otherwise calculate_ik runs and its result
\* is stored
calculate_leg_lengths(body) ==
  IF ~PoseRequestValid(body) THEN Rejected(422)
  ELSE LET cache_key == GenerateCacheKey("ik", body)
           cached_result == GetCached(cache_key)
           result == CalculateIk(body, current_config)
       IN /\ ik_request' = body
          /\ http_status' = 200
          /\ IF cached_result # {}
               THEN /\ ik_response' = (CHOOSE e \in cached_result : TRUE).value
                    /\ cached' = TRUE
                    /\ UNCHANGED ik_cache
               ELSE /\ ik_response' = result
                    /\ cached' = FALSE
                    /\ ik_cache' = SetCached(cache_key, result)
          /\ UNCHANGED <<drv_vars, orch_vars, proto_vars, current_config, redis_client>>

\* mutant: the measured orientation is handed on as it is
LevelRequestKeepsSign(roll, pitch, yaw, configuration) ==
  [configuration |-> configuration, x |-> 0, y |-> 0, z |-> 0, roll |-> roll,
   pitch |-> pitch, yaw |-> yaw, geometry |-> <<>>]

\* the PoseRequest calculate_leveling builds: the opposite rotation, no
\* translation, no geometry
LevelRequest(roll, pitch, yaw, configuration) ==
  [configuration |-> configuration, x |-> 0, y |-> 0, z |-> 0, roll |-> -roll,
   pitch |-> -pitch, yaw |-> -yaw, geometry |-> <<>>]

\* POST /level: the handler builds the PoseRequest itself; the ValidationError
\* of a PoseRequest that fails is answered by global_exception_handler with 500
calculate_leveling(roll, pitch, yaw, configuration) ==
  LET pose == LevelRequest(roll, pitch, yaw, configuration)
  IN IF PoseRequestValid(pose) THEN Calculate(pose) ELSE Rejected(500)

\* POST /config: update_config replaces current_config
update_config(config) ==
  /\ current_config' = config
  /\ http_status' = 200
  /\ UNCHANGED <<drv_vars, orch_vars, proto_vars, ik_request, ik_response, cache_vars>>

(***************************************************************************)
(* Properties of the driver                                                *)
(***************************************************************************)
Legs == 1..NumActuators

PositionsUnchanged == \A i \in Legs : actuators'[i].position = actuators[i].position

\* C1: in a tick that began after emergency_stop_trigger returned and before
\* any reset_emergency_stop, no actuator's position changes, whatever commands
\* were interleaved.
C1_NoMotionAfterEmergencyStop ==
  [][(tick_pc = "update" /\ tick_after_stop) => PositionsUnchanged]_vars

\* a tick that began under the stop finds an enabled actuator away from its target
C1_Witness ==
  /\ tick_pc = "update"
  /\ tick_after_stop
  /\ \E i \in Legs : /\ actuators[i].enabled
                     /\ Abs(actuators[i].target - actuators[i].position) >= SettleThreshold

\* C2: every actuator's position lies in [min_position, max_position] in
\* every reachable state.
C2_PositionInRange ==
  \A i \in Legs : /\ MinPosition <= actuators[i].position
                  /\ actuators[i].position <= MaxPosition

\* an actuator that a tick with a negative speed has brought back to the lower
\* limit, away from its target
C2_Witness ==
  \E j \in Legs : /\ actuators[j].position = MinPosition
                  /\ actuators[j].speed < 0
                  /\ actuators[j].target = MaxPosition
                  /\ actuators[j].current > 100

\* C3: limit_min holds exactly when position = min_position, limit_max exactly
\* when position = max_position.
C3_LimitFlagsExact ==
  \A i \in Legs : /\ actuators[i].limit_min <=> (actuators[i].position = MinPosition)
                  /\ actuators[i].limit_max <=> (actuators[i].position = MaxPosition)

\* one actuator moved onto the upper limit switch, another on the lower one
C3_Witness ==
  /\ \E i \in Legs : /\ actuators[i].limit_max
                     /\ ~actuators[i].limit_min
                     /\ actuators[i].current > 100
  /\ \E j \in Legs : actuators[j].limit_min /\ ~actuators[j].limit_max

C5_ArityMismatchRejected ==
  [][\A t \in TargetLists(NumActuators) :
       (Len(t) # NumActuators /\ set_targets(t))
         => /\ cmd_result' = "ValueError"
            /\ UNCHANGED <<actuators, emergency_stop, calibrated>>]_vars

\* a rejected call after targets had been set
C5_Witness ==
  /\ cmd_result = "ValueError"
  /\ \E i \in Legs : actuators[i].target = MaxPosition
  /\ \E j \in Legs : actuators[j].target = MinPosition

\* the requested value clamped into [min_position, max_position]
ClampedInto(v) ==
  IF v < MinPosition THEN MinPosition ELSE IF v > MaxPosition THEN MaxPosition ELSE v

\* C6: after set_targets each target is the requested value clamped into
\* [min_position, max_position], and every target lies in that range in every
\* reachable state.
C6_TargetsClamped ==
  /\ [](\A i \in Legs : /\ MinPosition <= actuators[i].target
                        /\ actuators[i].target <= MaxPosition)
  /\ [][\A t \in TargetLists(NumActuators) :
          (Len(t) = NumActuators /\ set_targets(t))
            => \A i \in Legs : actuators'[i].target = ClampedInto(t[i])]_vars

\* targets clamped at both ends by one call, away from the positions
C6_Witness ==
  /\ cmd_result = "ok"
  /\ actuators[1].target = MaxPosition
  /\ actuators[2].target = MinPosition
  /\ actuators[1].position = MinPosition + 6

\* C7: when calibrate's wait times out, calibrated keeps its value (stays false).
C7_TimeoutLeavesUncalibrated ==
  [][(cal_pc = "finish" /\ cal_timed_out) => calibrated' = calibrated]_vars

\* C8: after emergency_stop_trigger has returned and until a reset, no
\* actuator is enabled, whatever commands follow.
C8_StopKeepsDisabled ==
  stop_returned => \A i \in Legs : ~actuators[i].enabled

\* C9: emergency_stop, once set, is cleared only by reset_emergency_stop.
C9_StopClearedOnlyByReset ==
  [][(emergency_stop /\ ~emergency_stop') => reset_emergency_stop]_vars

\* the flag still set with a calibration waiting, actuators enabled again and
\* a tick under way
C9_Witness ==
  /\ emergency_stop
  /\ stop_returned
  /\ cal_pc = "wait"
  /\ tick_pc = "update"
  /\ \E i \in Legs : actuators[i].enabled /\ actuators[i].speed # DefaultSpeed

Next ==
  \/ TickBegin
  \/ TickUpdate
  \/ \E t \in TargetLists(NumActuators) : set_targets(t)
  \/ \E e \in BOOLEAN : enable_actuators(e)
  \/ \E s \in SpeedValues : set_speed(s)
  \/ EmergencyStopFlag
  \/ EmergencyStopDisable
  \/ reset_emergency_stop
  \/ CalibrateStart
  \/ CalibratePoll
  \/ CalibrateFinish

Spec == Init /\ [][Next]_vars

\* C29 as stated: in a tick, an enabled actuator whose position is within
\* 0.5 mm of its target does not move; otherwise it moves toward the target by
\* min(|target - position|, speed * dt), does not overshoot, and its distance to
\* the target does not increase.
C29_TickMovesTowardTarget ==
  [][(TickUpdate /\ tick_go)
       => \A i \in Legs :
            actuators[i].enabled
              => LET error == actuators[i].target - actuators[i].position
                     moved == actuators'[i].position - actuators[i].position
                     left == actuators[i].target - actuators'[i].position
                 IN IF Abs(error) < SettleThreshold
                      THEN moved = 0
                      ELSE /\ moved * (IF error > 0 THEN 1 ELSE -1)
                                = Min2(Abs(error), MaxMovement(actuators[i].speed))
                           /\ left * error >= 0
                           /\ Abs(left) <= Abs(error)]_vars

\* C31: a tick changes only position, limit_min, limit_max and current of
\* actuators that are enabled: no actuator's target, speed or enabled flag
\* changes, nor emergency_stop or calibrated, and a disabled actuator is left as
\* it is.
C31_TickFrame ==
  [][(TickBegin \/ TickUpdate)
       => /\ emergency_stop' = emergency_stop
          /\ calibrated' = calibrated
          /\ \A i \in Legs :
               /\ actuators'[i].target = actuators[i].target
               /\ actuators'[i].speed = actuators[i].speed
               /\ actuators'[i].enabled = actuators[i].enabled
               /\ ~actuators[i].enabled => actuators'[i] = actuators[i]]_vars

\* a tick has moved the enabled actuator 1 part of its way, and has left the
\* others at home
C31_Witness ==
  /\ tick_pc = "idle"
  /\ actuators[1].enabled
  /\ actuators[1].target = MinPosition + 6
  /\ actuators[1].position = MinPosition + 4
  /\ actuators[1].current = 540
  /\ ~actuators[1].limit_min
  /\ actuators[2].position = MinPosition

\* C32: reset_emergency_stop changes only the emergency_stop flag: every
\* actuator's enabled flag, target, position and speed is unchanged, so an
\* actuator that is disabled does not move until an explicit enable
\* (enable_actuators(True), which calibrate calls too).
C32_ResetChangesOnlyTheFlag ==
  /\ [][reset_emergency_stop
          => /\ actuators' = actuators
             /\ calibrated' = calibrated
             /\ cmd_result' = cmd_result]_vars
  /\ [][\A i \in Legs :
          /\ (~actuators[i].enabled /\ ~actuators'[i].enabled)
               => actuators'[i].position = actuators[i].position
          /\ (~actuators[i].enabled /\ actuators'[i].enabled)
               => (enable_actuators(TRUE) \/ CalibrateStart)]_vars

\* the stop has been reset: the actuators it disabled on their way rest where
\* they were, short of their targets, with the control loop idle
C32_Witness ==
  /\ ~emergency_stop
  /\ estop_pc = "idle"
  /\ tick_pc = "idle"
  /\ \A i \in Legs : ~actuators[i].enabled
  /\ actuators[1].target = MaxPosition
  /\ actuators[1].position = MinPosition + 8
  /\ cal_pc = "idle"

\* the legs of a pairing table that end on platform anchor p
LegsOnAnchor(m, p) == {i \in 1..Len(m.leg_pairs) : m.leg_pairs[i] = p}

\* C33: every topology's pairing table has one entry per base anchor and every
\* entry indexes an existing platform anchor; in the 6-to-3 topologies each
\* platform anchor carries exactly two legs, consecutive ones in the symmetric
\* variant, interleaved across adjacent anchors in the asymmetric and the
\* redundant variant; a response has one length per entry of its table.
C33_PairingTables ==
  /\ \A c \in Configurations :
       LET m == ConfigurationMapping(c)
       IN /\ Len(m.leg_pairs) = m.num_base
          /\ \A i \in 1..m.num_base :
               0 <= m.leg_pairs[i] /\ m.leg_pairs[i] < m.num_platform
          /\ c \in {"6-3", "6-3-asymmetric", "6-3-redundant"}
               => /\ m.num_base = 6
                  /\ m.num_platform = 3
                  /\ \A p \in 0..2 : Cardinality(LegsOnAnchor(m, p)) = 2
  /\ ConfigurationMapping("6-3").leg_pairs = <<0, 0, 1, 1, 2, 2>>
  /\ \A c \in {"6-3-asymmetric", "6-3-redundant"} :
       /\ ConfigurationMapping(c).leg_pairs = <<0, 1, 1, 2, 2, 0>>
       /\ \A p \in 0..2 : LegsOnAnchor(ConfigurationMapping(c), p)
                            = {((2 * p + 4) % 6) + 2, 2 * p + 1}
  /\ ik_request # NoRequest
       => Len(ik_response.leg_lengths)
            = Len(ConfigurationMapping(ik_request.configuration).leg_pairs)

\* an asymmetric 6-to-3 request has been answered with its six lengths
C33_Witness ==
  /\ ik_request # NoRequest
  /\ ik_request.configuration = "6-3-asymmetric"
  /\ ik_request.roll = 100
  /\ Len(ik_response.leg_lengths) = 6

\* the driver with a caller of calibrate that keeps running: the thread in
\* calibrate's wait loop sleeps 0.1 s and polls again; nothing is assumed of the
\* control loop or of the other callers
CalibrateSpec == Spec /\ WF_vars(CalibratePoll) /\ WF_vars(CalibrateFinish)

\* C27: calibrate always returns: its wait is bounded by the timeout, also when
\* the actuators never come within tolerance of home (emergency stop active,
\* control loop stopped, targets overwritten during the wait).
C27_CalibrateReturns ==
  /\ (cal_pc # "idle") ~> (cal_pc = "idle")
  /\ [](cal_polls <= MaxWaitPolls)

\* the wait has ended by the timeout while the emergency stop is active and an
\* actuator is away from home
C27_Witness ==
  /\ cal_pc = "finish"
  /\ cal_timed_out
  /\ emergency_stop
  /\ ~AllHome

\* the driver with its control loop running: _control_loop sleeps dt and runs
\* its next iteration for as long as the controller is started
TickSpec == Spec /\ WF_vars(TickBegin) /\ WF_vars(TickUpdate)

\* the targets an actuator can have: home, and the values of TargetLists as
\* set_targets clamps them
TargetValues ==
  {MinPosition}
    \cup {Clip(t[i], MinPosition, MaxPosition) :
            i \in 1..NumActuatorsOf("stewart_3dof"),
            t \in {u \in TargetLists(NumActuatorsOf("stewart_3dof")) :
                     Len(u) = NumActuatorsOf("stewart_3dof")}}

\* the positions an actuator can have
PositionValues == MinPosition..MaxPosition

\* from some point on the emergency stop is clear and actuator i is enabled,
\* has a positive speed and keeps the target t
SteadyDemand(i, t) ==
  <>[](/\ ~emergency_stop
       /\ actuators[i].enabled
       /\ actuators[i].speed > 0
       /\ actuators[i].target = t)

\* C30: with the emergency stop clear, the actuator enabled, the target fixed
\* and the speed positive, repeated ticks bring the position within 0.5 mm of
\* the target, and from then on the position does not change.
C30_TicksReachTarget ==
  \A i \in 1..NumActuatorsOf("stewart_3dof"), t \in TargetValues :
    SteadyDemand(i, t)
      => \E p \in PositionValues :
           <>[](actuators[i].position = p /\ Abs(t - p) < SettleThreshold)

\* an actuator has been driven from home to the upper end of its travel and
\* rests there, enabled, with the emergency stop clear
C30_Witness ==
  /\ ~emergency_stop
  /\ actuators[1].enabled
  /\ actuators[1].speed > 0
  /\ actuators[1].target = MaxPosition
  /\ actuators[1].position = MaxPosition
  /\ tick_pc = "idle"

(***************************************************************************)
(* Properties of the protocol                                              *)
(***************************************************************************)
\* the protocol: commands sent in simulated mode or to a serial port, and the
\* steps that end the operations a command starts
ProtoNext ==
  \/ connect
  \/ \E command \in Commands, data \in Payloads : send_command(command, data)
  \/ EmergencyStopDisable
  \/ reset_emergency_stop
  \/ CalibratePoll
  \/ CalibrateFinish

ProtoSpec == Init /\ [][ProtoNext]_vars

\* C23 as stated: the packet is one opcode byte, one length byte equal to the
\* payload's byte count, the payload, and one checksum byte equal to the sum of
\* all preceding bytes modulo 256.
C23_FrameAsStated ==
  [][\A c \in Commands, d \in Payloads :
       (serial_conn /\ Len(d) <= MaxPayload /\ send_command(c, d))
         => LET p == serial_out'
            IN /\ Len(p) = Len(d) + 3
               /\ p[1] = c
               /\ p[2] = Len(d)
               /\ SubSeq(p, 3, Len(p) - 1) = d
               /\ p[Len(p)] = SumBytes(SubSeq(p, 1, Len(p) - 1)) % 256]_vars

\* C23, amended: the packet is the start byte 0xAA, one opcode byte, one length
\* byte equal to the payload's byte count, the payload (at most 255 bytes), and
\* one checksum byte equal to the sum of all preceding bytes, the start byte
\* included, modulo 256.
C23_PacketFormat ==
  [][\A c \in Commands, d \in Payloads :
       (serial_conn /\ Len(d) <= MaxPayload /\ send_command(c, d))
         => LET p == serial_out'
            IN /\ Len(p) = Len(d) + 4
               /\ p[1] = StartByte
               /\ p[2] = c
               /\ p[3] = Len(d)
               /\ SubSeq(p, 4, Len(p) - 1) = d
               /\ p[Len(p)] = SumBytes(SubSeq(p, 1, Len(p) - 1)) % 256]_vars

\* a set-targets command for six actuators has been written to the port
C23_Witness ==
  /\ serial_conn
  /\ Len(serial_out) = 28
  /\ serial_out[2] = CMD_SET_TARGET
  /\ serial_out[3] = 24

\* the payload is one struct.unpack accepts for the command
WellFormed(c, d) ==
  CASE c = CMD_SET_TARGET -> Len(d) % 4 = 0
    [] c = CMD_ENABLE -> Len(d) = 1
    [] c = CMD_SET_SPEED -> Len(d) = 4
    [] OTHER -> TRUE

\* the driver operation the command surface names for a command
SurfaceOperation(c, d) ==
  CASE c = CMD_SET_TARGET -> set_targets(UnpackFloats(d, PerMm))
    [] c = CMD_ENABLE -> enable_actuators(d[1] = 1)
    [] c = CMD_EMERGENCY_STOP -> EmergencyStopFlag
    [] c = CMD_CALIBRATE -> CalibrateStart
    [] c = CMD_SET_SPEED -> set_speed(Float32Value(d, 1))
    [] OTHER -> UNCHANGED drv_vars

\* C24 as stated: every command of the surface (enable/disable, emergency
\* stop, emergency-stop reset, calibrate, set-speed, set-targets) sent through
\* the protocol is dispatched to its driver operation, so a latched emergency
\* stop can be reset by a command; a command the protocol does not dispatch
\* leaves the driver's state unchanged.
C24_EveryCommandDispatched ==
  /\ []((~serial_conn /\ emergency_stop /\ estop_pc = "idle")
          => \E c \in 0..255, d \in Payloads :
               ENABLED (send_command(c, d) /\ ~emergency_stop'))
  /\ [][\A c \in Commands, d \in Payloads :
          (~serial_conn /\ WellFormed(c, d) /\ send_command(c, d))
            => SurfaceOperation(c, d)]_vars

SendsTargets == LevelOnceOf(platform_type, latest_data).send

\* the latest sample needs a correction and the solver finds it unreachable
Unreachable ==
  /\ latest_data # NoData
  /\ ~PowRaises(latest_data)
  /\ TiltSquared(latest_data) >= LevelThreshold * LevelThreshold
  /\ ~LevelSolutions[platform_type][latest_data].valid

\* C11: when the solver reports valid = false for the corrective pose, neither
\* level_once nor the loop's call of it issues set_targets: every actuator's
\* target, with the rest of the driver's state, is unchanged.
C11_UnreachableNoMotion ==
  [][(Unreachable /\ (level_once \/ LoopLevel))
       => UNCHANGED <<actuators, cmd_result, acted>>]_vars

\* the loop has handled the unreachable sample <<200, 0, 0>> after a correction
\* had put the targets at the upper limit, and a tick has moved an actuator
C11_Witness ==
  /\ last_orientation = <<200, 0, 0>>
  /\ latest_data = <<200, 0, 0>>
  /\ loop_pc = "check"
  /\ acted = <<(<<30, 0, 0>>)>>
  /\ \E i \in Legs : /\ actuators[i].target = MaxPosition
                     /\ actuators[i].position > MinPosition

\* C12 as stated: last_orientation changes only in a step that issues
\* set_targets; a cycle whose correction is unreachable or that sends nothing
\* leaves it unchanged.
C12_RecordedOnlyWhenIssued ==
  [][last_orientation' # last_orientation => SendsTargets]_vars

\* C13: the loop goes on to level_once only from a cycle whose tests found the
\* thread running and leveling_enabled and auto_level_enabled both true; a
\* cycle that starts with either flag false issues nothing.
C13_LoopActsOnlyWhenEnabled ==
  [][(loop_pc # "level" /\ loop_pc' = "level")
       => (running /\ leveling_enabled /\ auto_level_enabled)]_vars

\* the loop has issued a correction for <<30, 0, 0>> and, leveling switched off
\* since, keeps cycling without acting on the sample <<200, 0, 0>>
C13_Witness ==
  /\ loop_pc = "check"
  /\ last_orientation = <<30, 0, 0>>
  /\ acted = <<(<<30, 0, 0>>)>>
  /\ cmd_result = "ok"
  /\ auto_level_enabled
  /\ ~leveling_enabled
  /\ latest_data = <<200, 0, 0>>

\* C14 as stated: while leveling_enabled is false no orchestrator operation,
\* level_once included, sends set_targets to the driver.
C14_NoCorrectionWhileDisabled ==
  [][(~leveling_enabled /\ (level_once \/ LoopLevel)) => ~SendsTargets]_vars

\* C15 as stated: whenever the last enable_auto_level call was
\* enable_auto_level(True), the auto-level loop thread exists.
C15_LoopRunsWhenAutoEnabled == auto_level_enabled => loop_pc # "none"

\* C16 as stated: a cycle with leveling and auto-leveling enabled issues
\* set_targets exactly when a sample exists, its change from last_orientation
\* is at least deadband, its tilt is at least level_threshold and the solution
\* is valid; a change equal to deadband and a tilt equal to level_threshold
\* trigger a correction.
C16_CycleActsFromDeadbandAndThreshold ==
  (loop_pc = "check" /\ running /\ auto_level_enabled /\ leveling_enabled)
    => ((CycleOutcome = "level" /\ SendsTargets)
          <=> /\ latest_data # NoData
              /\ ~PowRaises(latest_data)
              /\ ChangeSquared(latest_data, last_orientation) >= Deadband * Deadband
              /\ TiltSquared(latest_data) >= LevelThreshold * LevelThreshold
              /\ LevelSolutions[platform_type][latest_data].valid)

\* C17 as stated: no cycle of the loop, whatever fails in it, ends the loop
\* while the thread is meant to run and auto-leveling is enabled.
C17_FailedCycleKeepsLoopRunning ==
  [][((LoopCycle \/ LoopLevel) /\ running /\ auto_level_enabled)
       => loop_pc' \in {"check", "level"}]_vars

\* C25 as stated: a correction found unreachable is visible in get_status (the
\* step that finds it, none being pending, changes what get_status returns) and
\* is never raised as an exception by level_once or by the loop.
C25_UnreachableVisibleInStatus ==
  /\ [][(~unreachable_pending /\ unreachable_pending') => GetStatus' # GetStatus]_vars
  /\ [][(Unreachable /\ (level_once \/ LoopLevel)) => loop_pc' # "raised"]_vars

\* C28 as stated: in a cycle of the loop that issues a correction, the targets
\* sent are computed from the sample that passed the cycle's deadband and
\* threshold tests, and that sample is the one recorded as last_orientation,
\* also when the feed writes a newer sample during the cycle.
C28_CorrectionFromCheckedSample ==
  [][(LoopLevel /\ SendsTargets)
       => /\ acted'[Len(acted')] = current_orientation
          /\ last_orientation' = current_orientation]_vars

\* the orchestrator with the feed and the driver's control loop
OrchNext ==
  \/ \E sample \in Samples : ReceiveSample(sample)
  \/ \E e \in BOOLEAN : enable_leveling(e)
  \/ \E e \in BOOLEAN : enable_auto_level(e)
  \/ level_once
  \/ LoopCycle
  \/ LoopLevel
  \/ TickBegin
  \/ TickUpdate

OrchSpec == Init /\ [][OrchNext]_vars

(***************************************************************************)
(* Properties of the IK service                                            *)
(***************************************************************************)
\* the request is the neutral pose: no translation, no rotation
NeutralPose(pose) ==
  /\ pose.x = 0 /\ pose.y = 0 /\ pose.z = 0
  /\ pose.roll = 0 /\ pose.pitch = 0 /\ pose.yaw = 0

\* the leg count of each topology
LegsOfTopology(config) ==
  CASE config = "3-3" -> 3 [] config = "4-4" -> 4 [] config = "8-8" -> 8 [] OTHER -> 6

\* the distance from base anchor i, the i-th of the topology's base circle, to
\* the platform anchor its leg is paired with, moved to the pose
LengthToBaseAnchor(pose, config, i) ==
  LET g == GeometryOf(pose, config)
      m == ConfigurationMapping(pose.configuration)
      anchor == GeneratePoints(LegsOfTopology(pose.configuration), g.base_radius, 0)[i]
      paired == GeneratePoints(m.num_platform, g.platform_radius,
                               PlatformAngleOffset(m.num_platform))[m.leg_pairs[i] + 1]
  IN Distance(TransformedPoint(RotationMatrix(pose.roll, pose.pitch, pose.yaw),
                               paired, pose, g), anchor)

\* C18: the number of leg lengths returned equals the topology's leg count (3
\* for 3-3, 4 for 4-4, 6 for the 6-3 variants and 6-6, 8 for 8-8; 3 for
\* TripodIK, 6 for StewartPlatformIK), the i-th length being the distance to
\* base anchor i.
C18_LegCountMatchesTopology ==
  /\ [][Calculate(ik_request')
          => /\ Len(ik_response'.leg_lengths) = LegsOfTopology(ik_request'.configuration)
             /\ \A i \in 1..Len(ik_response'.leg_lengths) :
                  ik_response'.leg_lengths[i]
                    = LengthToBaseAnchor(ik_request', current_config, i)]_vars
  /\ [](/\ Len(Solve("tripod", 0, 0, 0).lengths) = 3
        /\ Len(Solve("stewart_3dof", 0, 0, 0).lengths) = 6
        /\ Len(Solve("stewart_6dof", 0, 0, 0).lengths) = 6)

\* a response for the asymmetric 6-to-3 pairing under a rotation
C18_Witness ==
  /\ ik_response.configuration = "6-3-asymmetric"
  /\ ik_request.roll # 0
  /\ Len(ik_response.leg_lengths) = 6

\* C19 as stated: for the neutral pose every computed leg length equals the
\* geometry's nominal leg length (within one rounding unit).
C19_NeutralPoseGivesNominal ==
  (ik_response # NoResponse /\ NeutralPose(ik_request))
    => \A i \in 1..Len(ik_response.leg_lengths) :
         Abs(ik_response.leg_lengths[i]
               - GeometryOf(ik_request, current_config).nominal_leg_length) <= 1

\* C20 as stated: the neutral pose with configuration 6-3 and the default
\* geometry returns six leg lengths and valid = true.
C20_NeutralDefaultIsValid ==
  (ik_response # NoResponse /\ NeutralPose(ik_request)
     /\ ik_request.configuration = "6-3" /\ ik_request.geometry = <<>>
     /\ current_config = DefaultGeometry)
    => (Len(ik_response.leg_lengths) = 6 /\ ik_response.valid)

\* C21 as stated: the result of calculate_ik depends only on the request (pose,
\* configuration, geometry): a call with the request of the call before it
\* returns the result of the call before it, whatever configuration updates
\* happened between the two.
C21_ResultDependsOnRequestOnly ==
  [][(ik_request # NoRequest /\ ik_request' = ik_request)
       => ik_response' = ik_response]_vars

(***************************************************************************)
(* Properties of the HTTP endpoints                                        *)
(***************************************************************************)
\* the orientation with every angle negated, as a request without translation
NegatedOrientation(o, configuration) ==
  [configuration |-> configuration, x |-> 0, y |-> 0, z |-> 0, roll |-> 0 - o[1],
   pitch |-> 0 - o[2], yaw |-> 0 - o[3], geometry |-> <<>>]

\* C22: level_platform(roll, pitch, yaw) is solve(-roll, -pitch, -yaw) for the
\* Stewart platform in 6DOF mode and solve(-roll, -pitch, 0) for the tripod and
\* the Stewart platform in 3DOF mode; /level answers with what calculate_ik
\* returns for the negated orientation and no translation.
C22_LevelIsSolveOfNegated ==
  /\ [][\A o \in LevelOrientations, c \in Configurations :
          calculate_leveling(o[1], o[2], o[3], c)
            => /\ ik_response' = CalculateIk(NegatedOrientation(o, c), current_config)
               /\ http_status' = 200]_vars
  /\ [](\A o \in LevelOrientations :
          /\ LevelPlatform("stewart_6dof", o[1], o[2], o[3])
               = Solve("stewart_6dof", 0 - o[1], 0 - o[2], 0 - o[3])
          /\ LevelPlatform("stewart_3dof", o[1], o[2], o[3])
               = Solve("stewart_3dof", 0 - o[1], 0 - o[2], 0)
          /\ LevelPlatform("tripod", o[1], o[2], o[3])
               = Solve("tripod", 0 - o[1], 0 - o[2], 0))

\* /level has answered for a platform measured at roll 10, pitch -5 degrees
C22_Witness ==
  /\ ik_request.roll = -100 /\ ik_request.pitch = 50
  /\ http_status = 200
  /\ Len(ik_response.leg_lengths) = 6

\* C26 as stated: a request that names a configuration outside the seven
\* topologies is rejected as a validation error (status 422) on /calculate and
\* on /level and never reaches calculate_ik; no response is computed for an
\* unknown topology or for one put in its place.
C26_UnknownTopologyRejected ==
  /\ [][\A body \in RequestBodies :
          (body.configuration \notin Configurations /\ calculate_leg_lengths(body))
            => (http_status' = 422 /\ UNCHANGED <<ik_request, ik_response>>)]_vars
  /\ [][\A o \in LevelOrientations, c \in RequestedConfigurations \ Configurations :
          calculate_leveling(o[1], o[2], o[3], c)
            => (http_status' = 422 /\ UNCHANGED <<ik_request, ik_response>>)]_vars
  /\ [](ik_response # NoResponse => ik_response.configuration \in Configurations)

\* the IK service: calls of calculate_ik and configuration updates
IkNext ==
  \/ \E pose \in PoseRequests : Calculate(pose)
  \/ \E config \in Geometries : update_config(config)

IkSpec == Init /\ [][IkNext]_vars

\* the HTTP endpoints of the IK service
ApiNext ==
  \/ \E body \in RequestBodies : calculate_leg_lengths(body)
  \/ \E o \in LevelOrientations, c \in RequestedConfigurations :
       calculate_leveling(o[1], o[2], o[3], c)
  \/ \E config \in Geometries : update_config(config)

ApiSpec == Init /\ [][ApiNext]_vars

\* the lists whose packed form is sent as a CMD_SET_TARGET payload: one per
\* actuator of a six-leg and of a three-leg system, one short, one long
SentTargetLists == TargetLists(6) \cup TargetLists(3)

\* struct.pack(f"{n}f", *targets) of each of these lists, evaluated once
SentPayloads == [t \in SentTargetLists |-> PackFloats(t, PerMm)]

\* the orchestrator's system (protocol in simulated mode) next to a sender of
\* CMD_SET_TARGET payloads, well formed or not
LinkNext ==
  \/ \E sample \in Samples : ReceiveSample(sample)
  \/ level_once
  \/ \E t \in SentTargetLists : send_command(CMD_SET_TARGET, SentPayloads[t])
  \/ send_command(CMD_SET_TARGET, <<1, 0>>)

LinkSpec == Init /\ [][LinkNext]_vars

\* C34: the n targets level_once packs into the CMD_SET_TARGET payload are
\* decoded as n targets in the same leg order, so actuator i receives the
\* target computed for leg i; the same holds for any packed list with one
\* target per actuator, and a payload whose decoded count differs from the
\* actuator count (or that cannot be decoded) changes no target.
C34_PayloadRoundTrip ==
  /\ [][(level_once /\ SendsTargets)
          => LET t == LevelOnceOf(platform_type, latest_data).targets
             IN /\ Len(LevelPayloads[platform_type][latest_data]) = 4 * Len(t)
                /\ DecodedTargets[platform_type][latest_data] = t
                /\ Len(t) = NumActuators
                /\ \A i \in Legs :
                     actuators'[i].target = Clip(t[i], MinPosition, MaxPosition)]_vars
  /\ [][\A t \in SentTargetLists :
          send_command(CMD_SET_TARGET, SentPayloads[t])
            => /\ UnpackFloats(SentPayloads[t], PerMm) = t
               /\ IF Len(t) = NumActuators
                    THEN \A i \in Legs :
                           actuators'[i].target = Clip(t[i], MinPosition, MaxPosition)
                    ELSE \A i \in Legs : actuators'[i].target = actuators[i].target]_vars
  /\ [][send_command(CMD_SET_TARGET, <<1, 0>>)
          => \A i \in Legs : actuators'[i].target = actuators[i].target]_vars

\* level_once has sent the solution for its sample, whose lengths differ from
\* leg to leg: every leg's target is its own length, clamped by set_targets
C34_Witness ==
  /\ latest_data # NoData
  /\ SendsTargets
  /\ acted # <<>>
  /\ cmd_result = "ok"
  /\ LET t == LevelOnceOf(platform_type, latest_data).targets
     IN /\ t[1] # t[2]
        /\ DecodedTargets[platform_type][latest_data] = t
        /\ \A i \in Legs : actuators[i].target = Clip(t[i], MinPosition, MaxPosition)

\* the bodies posted to /calculate with the cache in use: one topology, with
\* the geometry left out or given, and a second topology
CacheBodies ==
  {[configuration |-> c, x |-> 0, y |-> 0, z |-> 0, roll |-> 0, pitch |-> 0, yaw |-> 0,
    geometry |-> g] :
     c \in {"3-3", "6-6"}, g \in {<<>>, <<DefaultGeometry>>}}

\* the IK service with its cache: startup, /calculate, /config and the expiry
\* of cache entries
CacheNext ==
  \/ init_cache
  \/ \E body \in CacheBodies : calculate_leg_lengths(body)
  \/ \E config \in Geometries : update_config(config)
  \/ CacheExpire

CacheSpec == Init /\ [][CacheNext]_vars

\* C35 as stated: a /calculate response served from the cache has the same
\* leg_lengths and valid as a fresh calculate_ik of the same request would
\* return at that moment, after any sequence of calculate requests and
\* configuration updates.
C35_CachedEqualsFresh ==
  [][\A body \in CacheBodies :
       (calculate_leg_lengths(body) /\ cached')
         => LET fresh == CalculateIk(body, current_config)
            IN /\ ik_response'.leg_lengths = fresh.leg_lengths
               /\ ik_response'.valid = fresh.valid]_vars

\* the raw orientations the feed delivers to a receiver that is calibrated from
\* time to time
ImuSamples == {<<0, 0, 0>>, <<20, 0, 0>>, <<20, -10, 5>>, <<-30, 10, 0>>}

\* the IMU receiver: samples arrive, calibrate is called
ImuNext ==
  \/ \E sample \in ImuSamples : ReceiveSample(sample)
  \/ calibrate_imu

ImuSpec == Init /\ [][ImuNext]_vars

\* C36 as stated: after any sequence of received samples and calibrate calls
\* the offsets equal the raw orientation of the latest sample at the last
\* calibrate (so that a following sample with the same raw orientation is
\* stored as roll = pitch = yaw = 0), and a calibrate that follows a calibrate
\* with no sample in between changes nothing.
C36_CalibrateTakesRawOrientation ==
  [][(calibrate_imu /\ latest_data # NoData)
       => /\ imu_offset' = last_raw
          /\ <<last_raw[1] - imu_offset'[1], last_raw[2] - imu_offset'[2],
               last_raw[3] - imu_offset'[3]>> = <<0, 0, 0>>]_vars

\* the orchestrator's life cycle: one caller that issues enable_auto_level,
\* enable_leveling and shutdown one after the other (a call is issued when
\* the one before has returned), the feed, and the loop thread
ThreadNext ==
  \/ shutdown_pc = "idle" /\ \E e \in BOOLEAN : enable_auto_level(e)
  \/ shutdown_pc = "idle" /\ \E e \in BOOLEAN : enable_leveling(e)
  \/ ShutdownBegin
  \/ ShutdownFinish
  \/ \E sample \in Samples : ReceiveSample(sample)
  \/ LoopCycle
  \/ LoopLevel

ThreadSpec == Init /\ [][ThreadNext]_vars

\* C37: at most one auto-level loop thread is running at any time, after any
\* sequence of enable_auto_level(True/False), enable_leveling and shutdown
\* calls; the thread that runs is the one whose position loop_pc holds.
C37_OneLoopThread ==
  /\ loop_threads \in {0, 1}
  /\ loop_threads = 1 <=> loop_pc \in {"check", "level"}

\* shutdown has cleared the flags and waits in join for the one loop thread,
\* which is inside its call of level_once
C37_Witness ==
  /\ shutdown_pc = "join"
  /\ ~running
  /\ loop_threads = 1
  /\ loop_pc = "level"

\* the tripod system: the feed, the operator's calls and the loop
TripodNext ==
  \/ \E sample \in TripodSamples : ReceiveSample(sample)
  \/ \E e \in BOOLEAN : enable_leveling(e)
  \/ \E e \in BOOLEAN : enable_auto_level(e)
  \/ level_once
  \/ LoopCycle
  \/ LoopLevel

TripodSpec == TripodInit /\ [][TripodNext]_vars

\* a tilt of at least level_threshold and of at most 10 degrees on each axis
ModerateTilt(sample) ==
  /\ TiltSquared(sample) >= LevelThreshold * LevelThreshold
  /\ Abs(sample[1]) <= 100
  /\ Abs(sample[2]) <= 100

\* C38 as stated: for the tripod with the default geometry a sample whose tilt
\* is above level_threshold and moderate (2 to 10 degrees of roll or pitch)
\* yields a valid corrective solution, so level_once sends set_targets.
C38_TripodCorrectsModerateTilt ==
  (platform_type = "tripod" /\ latest_data # NoData /\ ModerateTilt(latest_data))
    => /\ LevelSolutions[platform_type][latest_data].valid
       /\ SendsTargets

====
